---- MODULE Spec2Model ----
(***************************************************************************)
(* app-review-monitor: the review deduplication and delivery pipeline.     *)
(*                                                                         *)
(* One run is cli.main: it calls core.process_reviews (fetch, load the     *)
(* seen-set file, filter, save the file) and then posts to the webhook     *)
(* with core.send_slack_notification.  Each process of Procs is one        *)
(* invocation of the command; the seen-set file is the only state shared   *)
(* between runs.  The environment (review source, file system, webhook)    *)
(* chooses the outcome of every I/O call.                                  *)
(***************************************************************************)
EXTENDS Integers, Sequences, FiniteSets, TLC

\* ------------------------------------------------------------- bounds

\* Longest fetch result that is enumerated.
MaxFetch == 2

\* Number of runs that are started in one behaviour.
MaxRuns == 2

Procs == {"p1", "p2"}

ReviewIds == {"r1", "r2"}

Bodies == {"a", "b"}

\* A normalised review as get_recent_reviews returns it; body stands for
\* everything but the id (rating, title, body, author, territory, date).
Reviews == [id : ReviewIds, body : Bodies]

FetchResults == UNION {[1..n -> Reviews] : n \in 0..MaxFetch}

\* The pseudo review cli.main sends when there is nothing new.
NoReviewsId == "no_reviews"

\* HTTP outcomes of one webhook POST: a status code, or 0 for a transport
\* error (requests.post raising).
PostOutcomes == {200, 204, 500, 0}

\* ------------------------------------------------------------- the file

\* The file holds the JSON object {"review_ids": [...], "last_run": "..."}:
\* review_ids is a list, in the order list(set) happened to produce.
MissingFile == [kind |-> "missing", review_ids |-> <<>>, last_run |-> 0]

\* Not parsable as JSON (json.load raises JSONDecodeError); an empty or
\* truncated file is one.
CorruptFile == [kind |-> "corrupt", review_ids |-> <<>>, last_run |-> 0]

\* Parsable JSON that is not an object (a list, a number, a string).
BadShapeFile == [kind |-> "badshape", review_ids |-> <<>>, last_run |-> 0]

\* list(s) for a set s: the elements once each, in an order the hash seed
\* decides.
Orderings(s) ==
  {l \in [1..Cardinality(s) -> s] : \A i, j \in 1..Cardinality(s) :
                                      l[i] = l[j] => i = j}

OkFile(ids, t) == [kind |-> "ok", review_ids |-> ids, last_run |-> t]

Files ==
  {MissingFile, CorruptFile, BadShapeFile}
    \cup {OkFile(ids, t) : ids \in UNION {Orderings(s) : s \in SUBSET ReviewIds},
                             t \in 0..(MaxRuns + 1)}

VARIABLES
  file,           \* content of processed_reviews.json
  now,            \* datetime.now(), advanced once per started run
  pc,             \* position of each run
  dry_run,        \* --dry-run flag of each run
  webhook_set,    \* SLACK_WEBHOOK_URL was set when cli.main read it
  reviews,        \* result of get_recent_reviews in process_reviews
  processed_ids,  \* processed_review_ids in process_reviews
  new_reviews,    \* new_reviews in process_reviews
  cli_new_reviews,\* new_reviews in cli.main: what process_reviews returned
  queue,          \* reviews send_slack_notification still has to post
  outcome,        \* how process_reviews ended, and how fetch/load/save ended
  posts,          \* webhook POSTs of the run: <<review id, status, text length>>
  delivered,      \* ids of reviews with at least one successful POST, ever
  file0,          \* the file as it was when the run started
  hist,           \* what earlier runs did
  api,            \* one call of get_recent_reviews: arguments, source, result,
                  \* and what the filter loop of process_reviews makes of it
  check           \* one call of get_next_check_time: zone, argument, result

vars ==
  <<file, now, pc, dry_run, webhook_set, reviews, processed_ids, new_reviews,
    cli_new_reviews, queue, outcome, posts, delivered, file0, hist, api,
    check>>

Ids(revs) == {revs[i].id : i \in 1..Len(revs)}

Range(seq) == {seq[i] : i \in 1..Len(seq)}

\* What a load that does not raise reads from the file.
PersistedIds(f) ==
  IF f.kind = "ok" THEN {f.review_ids[i] : i \in 1..Len(f.review_ids)} ELSE {}

\* No exception has left cli.main.  In an error, text is -1 or the POST
\* outcome whose text the message carries.
NoError == [type |-> "none", message |-> "", text |-> -1]

NoOutcome ==
  [fetch |-> "none", load |-> "none", save |-> "none", process |-> "none",
   loaded |-> {}, loaded_last_run |-> 0, fetches |-> 0, loads |-> 0,
   saves |-> 0, error |-> NoError]

\* returned: the ids earlier runs returned; allOk: no fetch, load or save
\* of an earlier run failed; allLive: no earlier run was a dry run;
\* prevValid: the last run called process_reviews, started from an empty
\* seen set, and allOk held after it; prevFetched and prevReturned are then
\* what it fetched and returned, and prevDry whether it was a dry run; saved: the arguments of the last save that
\* completed, while the file it wrote has not been opened for writing again.
NoSaved == [valid |-> FALSE, review_ids |-> {}, last_run |-> 0]

NoHist ==
  [returned |-> {}, allOk |-> TRUE, allLive |-> TRUE, prevValid |-> FALSE,
   prevDry |-> FALSE, prevFetched |-> <<>>, prevReturned |-> <<>>,
   saved |-> NoSaved]

\* The ids a load that does not raise would have read when the run of p
\* started.
Seen0(p) == PersistedIds(file0[p])

\* ------------------------------------------------------------- helpers

\* core.load_processed_reviews: the value it returns, or raised = TRUE when
\* an exception leaves it.  Only json.JSONDecodeError is caught: an
\* existing file that cannot be opened raises OSError, and parsed JSON that
\* is not an object raises AttributeError at data.get.
load_processed_reviews(f, readable) ==
  IF f.kind = "missing"
    THEN [raised |-> FALSE, review_ids |-> <<>>, last_run |-> 0]
  ELSE IF ~readable
    THEN [raised |-> TRUE, review_ids |-> <<>>, last_run |-> 0]
  ELSE IF f.kind = "corrupt"
    THEN [raised |-> FALSE, review_ids |-> <<>>, last_run |-> 0]
  ELSE IF f.kind = "badshape"
    THEN [raised |-> TRUE, review_ids |-> <<>>, last_run |-> 0]
  ELSE [raised |-> FALSE, review_ids |-> f.review_ids, last_run |-> f.last_run]

\* A save that writes "last_run": null.
SaveWithoutLastRun(review_ids, last_run) ==
  {OkFile(l, 0) : l \in Orderings(review_ids)}

\* core.save_processed_reviews: the file contents json.dump may write,
\* review_ids being list(review_ids) and last_run the time of the call.
save_processed_reviews(review_ids, last_run) ==
  {OkFile(l, last_run) : l \in Orderings(review_ids)}

\* The apps the two processes watch when they run side by side.
AppIds == {"appA", "appB"}

\* core.get_processed_reviews_file: the path of the seen-set file, next to
\* the module; it takes no app id, so every app has the one file.
get_processed_reviews_file(app_id) == "processed_reviews.json"

\* The file after a process has written `new` through a descriptor it
\* opened earlier (its text goes to offset 0 and nothing is truncated
\* again): on an empty file, or over a text that is not longer, the file
\* is `new`; over a longer text (more ids, ids being equally long) the tail
\* of the old text stays behind it and the file is no JSON.
WriteOver(old, new) ==
  IF old.kind = "ok" /\ Len(old.review_ids) > Len(new.review_ids)
    THEN CorruptFile ELSE new

\* The filter loop without the membership test: every fetched review is
\* taken as new.
FilterNewKeepAll(revs, processed) ==
  [new |-> revs, ids |-> processed \cup Ids(revs)]

\* The filter loop testing every review against the loaded set only (the
\* add to processed_review_ids deferred to the end of the loop).
FilterNewNoAdd(revs, processed) ==
  LET keep(r) == r.id \notin processed
  IN  [new |-> SelectSeq(revs, keep),
       ids |-> processed \cup Ids(SelectSeq(revs, keep))]

\* The filter loop of process_reviews: new is new_reviews, ids is
\* processed_review_ids after the loop.
RECURSIVE FilterNew(_, _)
FilterNew(revs, processed) ==
  IF revs = <<>>
    THEN [new |-> <<>>, ids |-> processed]
  ELSE IF Head(revs).id \notin processed
    THEN LET rest == FilterNew(Tail(revs), processed \cup {Head(revs).id})
         IN  [new |-> <<Head(revs)>> \o rest.new, ids |-> rest.ids]
  ELSE FilterNew(Tail(revs), processed)

\* No early return on an empty fetch result.
NothingFetchedIgnored(revs) == FALSE

\* process_reviews leaves before the store is touched: `if not reviews`.
NothingFetched(revs) == revs = <<>>

\* The save made unconditional.
ShouldSaveAlways(new) == TRUE

\* process_reviews saves: `if new_reviews`.
ShouldSave(new) == new # <<>>

\* The status send_slack_notification accepts: `response.status_code != 200`
\* raises SlackError.
PostAccepted(status) == status = 200

\* The webhook took the message: any 2xx answer.
Took(status) == status \in 200..299

\* The status message of cli.main; its body is the text with the current
\* time, the lookback window and the next check time.
NoReviewsMessage == [id |-> NoReviewsId, body |-> "status"]

\* Slack's limit on the text of a message, in characters.
MaxText == 4000

\* The characters of the f-string of send_slack_notification that are not
\* review values: the heading, the six labels and the line breaks.
TemplateLen == 78

\* A long review: the body of 5000 characters of the tests.
LongBody == 5000

\* Characters of the values rendered into the text: the body "b" is the
\* long review, every other one is short.
ValuesLen(review) == IF review.body = "b" THEN LongBody ELSE 1

\* Length of payload["text"] as send_slack_notification builds it: the
\* template with the values inserted whole.
MessageLength(review) == TemplateLen + ValuesLen(review)

\* The exception a POST that is not accepted raises out of
\* send_slack_notification: response.text of a non-200 answer, or str(e) of
\* the exception requests.post raised.
SlackErrorFor(status) ==
  IF status = 0
    THEN [type |-> "SlackError", message |-> "Error sending notification",
          text |-> status]
    ELSE [type |-> "SlackError", message |-> "Failed to send notification",
          text |-> status]

\* A cli.main that hands the status message over twice.
NotifierInputTwice(new) ==
  IF new = <<>> THEN <<NoReviewsMessage, NoReviewsMessage>> ELSE new

\* What cli.main hands to send_slack_notification in a live run.
NotifierInput(new) == IF new = <<>> THEN <<NoReviewsMessage>> ELSE new

\* The ValueError of cli.main for an environment variable that is not set.
ConfigError(name) ==
  [type |-> "ValueError", message |-> name \o " not found in config",
   text |-> -1]

\* A notifier that is called in a dry run too.
ShouldNotifyAlways(dry) == TRUE

\* cli.main calls send_slack_notification: `if not dry_run`.
ShouldNotify(dry) == ~dry

\* A notifier that posts its first review again after a POST failed.
AfterPostRetry(status, q) ==
  IF PostAccepted(status)
    THEN [queue |-> Tail(q), pc |-> IF Tail(q) = <<>> THEN "done" ELSE "send"]
    ELSE [queue |-> q, pc |-> "send"]

\* A notifier that sends one message for the whole batch.
AfterPostBatched(status, q) ==
  IF PostAccepted(status)
    THEN [queue |-> <<>>, pc |-> "done"]
    ELSE [queue |-> q, pc |-> "error"]

\* send_slack_notification after one requests.post: the loop goes on with
\* the next review or ends, or the raise leaves the function.
AfterPost(status, q) ==
  IF PostAccepted(status)
    THEN [queue |-> Tail(q), pc |-> IF Tail(q) = <<>> THEN "done" ELSE "send"]
    ELSE [queue |-> q, pc |-> "error"]

\* ------------------------------------------------------------- fetch

\* Longest lookback, in days, that is enumerated.
MaxDays == 2

\* The days argument: --days takes any integer.
Days == -1..MaxDays

\* Instants, in days; EndDate is datetime.now(pytz.UTC) of the call, so the
\* instants reach from before the longest window to after its end.
EndDate == MaxDays + 1

Times == 0..(MaxDays + 2)

Fields == {"rating", "title", "body", "author", "territory"}

\* The second argument of attrs.get for each field (the rating's 0 as text).
Default(f) ==
  CASE f = "rating" -> "0"
    [] f = "title" -> "No title"
    [] f = "body" -> "No review text"
    [] f = "author" -> "Anonymous"
    [] f = "territory" -> "Unknown"

\* createdDate of a source record: the key is absent, or its value is "",
\* null, a string fromisoformat rejects, a timestamp without an offset, or a
\* timestamp with one (at instant t).
NoDate(kind) == [kind |-> kind, t |-> 0]

DateValues ==
  {NoDate(k) : k \in {"absent", "empty", "null", "unparsable", "naive"}}
    \cup {[kind |-> "aware", t |-> t] : t \in Times}

\* attributes of a source record: each key is absent, null or has a value.
Complete == [f \in Fields |-> "value"]

\* The attribute maps that are enumerated: complete, empty, or complete but
\* for one key that is absent or null.
AttrProfiles ==
  {Complete, [f \in Fields |-> "absent"]}
    \cup {[Complete EXCEPT ![f] = v] : f \in Fields, v \in {"absent", "null"}}

\* The source records that are enumerated: every date value with complete
\* attributes, every attribute map with a date inside every window, and a
\* record without the 'attributes' key.
SourceItems ==
  {[has_attributes |-> TRUE, id |-> i, attrs |-> Complete, date |-> d] :
     i \in {"r1", "r2", "absent"}, d \in DateValues}
    \cup {[has_attributes |-> TRUE, id |-> "r1", attrs |-> a,
           date |-> [kind |-> "aware", t |-> EndDate]] : a \in AttrProfiles}
    \cup {[has_attributes |-> FALSE, id |-> "r1", attrs |-> Complete,
           date |-> NoDate("absent")]}

\* What requests.get and response.json() give make_api_request: an exception
\* (of Api(), of requests.get or of the JSON decoder), or a status with a
\* parsed body: {}, [], a non-empty list, an object without 'data', an
\* object with "data": null, or an object whose 'data' is a list of records.
Body(kind, items) == [kind |-> kind, data |-> items]

Bodies200 ==
  {Body(k, <<>>) : k \in {"empty_object", "empty_list", "list", "no_data",
                          "data_null"}}
    \cup {Body("data", items) :
            items \in UNION {[1..n -> SourceItems] : n \in 0..MaxFetch}}

\* A record that is complete and inside every window.
GoodItem ==
  [has_attributes |-> TRUE, id |-> "r1", attrs |-> Complete,
   date |-> [kind |-> "aware", t |-> EndDate]]

Responses ==
  {[kind |-> "exception", status |-> 0, body |-> Body("empty_object", <<>>)]}
    \cup {[kind |-> "answer", status |-> st,
           body |-> Body("data", <<GoodItem>>)] : st \in {204, 500}}
    \cup {[kind |-> "answer", status |-> 200, body |-> b] : b \in Bodies200}

\* make_api_request returns None.
None == Body("none", <<>>)

\* A make_api_request that parses the body of every answer.
MakeApiRequestAnyStatus(resp) ==
  IF resp.kind = "exception" THEN None ELSE resp.body

\* core.make_api_request: the parsed body of a 200 answer, None otherwise.
make_api_request(resp) ==
  IF resp.kind = "exception" THEN None
  ELSE IF resp.status # 200 THEN None
  ELSE resp.body

\* `not response` in get_recent_reviews: None, {} and [] are falsy.
Falsy(body) == body.kind \in {"none", "empty_object", "empty_list"}

\* The review dict get_recent_reviews builds from one source record.
Normalise(item) ==
  [id |-> IF item.id = "absent" THEN "" ELSE item.id,
   fields |-> [f \in Fields |->
                 IF item.attrs[f] = "absent" THEN Default(f) ELSE item.attrs[f]],
   date |-> IF item.date.kind = "absent" THEN NoDate("empty") ELSE item.date]

\* The loop over response['data']: records without 'attributes' are skipped.
RECURSIVE Extract(_)
Extract(items) ==
  IF items = <<>> THEN <<>>
  ELSE IF Head(items).has_attributes
    THEN <<Normalise(Head(items))>> \o Extract(Tail(items))
  ELSE Extract(Tail(items))

\* A date loop without the window test.
InWindowAlways(t, start_date, end_date) == TRUE

\* `start_date <= created_date <= end_date`.
InWindow(t, start_date, end_date) == start_date <= t /\ t <= end_date

\* What the body of the date loop does with one review: "keep", "drop"
\* (ValueError caught, or outside the window) or "raise": None.replace is an
\* AttributeError and comparing a naive with an aware datetime a TypeError,
\* neither of which `except (KeyError, ValueError)` catches.
DateStep(review, start_date, end_date) ==
  CASE review.date.kind \in {"empty", "unparsable"} -> "drop"
    [] review.date.kind = "null" -> "raise"
    [] review.date.kind = "naive" -> "raise"
    [] review.date.kind = "aware" ->
         IF InWindow(review.date.t, start_date, end_date) THEN "keep" ELSE "drop"

\* The date loop: the filtered reviews, or raised when a step raises.
RECURSIVE FilterByDate(_, _, _)
FilterByDate(revs, start_date, end_date) ==
  IF revs = <<>> THEN [raised |-> FALSE, reviews |-> <<>>]
  ELSE LET step == DateStep(Head(revs), start_date, end_date)
           rest == FilterByDate(Tail(revs), start_date, end_date)
       IN  IF step = "raise" \/ rest.raised
             THEN [raised |-> TRUE, reviews |-> <<>>]
           ELSE IF step = "keep"
             THEN [raised |-> FALSE, reviews |-> <<Head(revs)>> \o rest.reviews]
           ELSE rest

\* get_recent_reviews ends with APIError.
\* The query of the one request of get_recent_reviews: the newest reviews
\* first, one page of at most PageLimit of them.
PageLimit == 100

RequestParams == [sort |-> "-createdDate", limit |-> PageLimit]

\* The queries of `requests` calls of make_api_request.
Asked(requests) == [i \in 1..requests |-> RequestParams]

FetchRaised(requests) ==
  [raised |-> TRUE, reviews |-> <<>>, requests |-> requests,
   asked |-> Asked(requests)]

\* A get_recent_reviews that asks the source a second time when the first
\* request failed, and fails when that one fails too.
GetRecentReviewsRetrying(app_id, days, credentials, resp) ==
  IF ~credentials THEN FetchRaised(0)
  ELSE LET response == make_api_request(resp) IN
       IF Falsy(response) THEN FetchRaised(2)
       ELSE IF response.kind = "data"
         THEN LET f == FilterByDate(Extract(response.data),
                                    EndDate - days, EndDate)
              IN  IF f.raised THEN FetchRaised(1)
                  ELSE [raised |-> FALSE, reviews |-> f.reviews,
                        requests |-> 1, asked |-> Asked(1)]
       ELSE FetchRaised(1)

\* core.get_recent_reviews: the list it returns or raised = TRUE for the
\* APIError it raises; requests counts the calls of make_api_request, each
\* of which calls requests.get at most once, and asked is their queries.
get_recent_reviews(app_id, days, credentials, resp) ==
  IF ~credentials THEN FetchRaised(0)
  ELSE LET response == make_api_request(resp) IN
       IF Falsy(response) THEN FetchRaised(1)
       ELSE IF response.kind = "data"
         THEN LET f == FilterByDate(Extract(response.data),
                                    EndDate - days, EndDate)
              IN  IF f.raised THEN FetchRaised(1)
                  ELSE [raised |-> FALSE, reviews |-> f.reviews,
                        requests |-> 1, asked |-> Asked(1)]
       ELSE FetchRaised(1)

\* No call of get_recent_reviews on its own is modelled.
NoCall ==
  [state |-> "none", app_id |-> "numeric", days |-> 1, credentials |-> TRUE,
   response |-> [kind |-> "exception", status |-> 0,
                 body |-> Body("empty_object", <<>>)],
   result |-> FetchRaised(0), seen |-> {}, new_reviews |-> <<>>]

\* ------------------------------------------------- the next check time
\* Instants are whole hours of UTC.  The zone America/Los_Angeles is
\* StdWest hours behind UTC in winter (PST) and DstWest in summer (PDT).
HoursPerDay == 24

TargetHour == 9

StdWest == 8

DstWest == 7

\* The days of the instants a call is made at.
ClockDays == 4

\* The local day whose night the clocks change in, at 02:00.
TransitionDay == ClockDays \div 2

Instants == HoursPerDay .. (HoursPerDay * (ClockDays + 1) - 1)

\* The stretch of the year the instants lie in: no change of the clocks,
\* the change to summer time ("forward"), the change back ("back").
Shifts == {"none", "forward", "back"}

\* The instant the clocks change at.
Transition(shift) ==
  HoursPerDay * TransitionDay + 2
    + (IF shift = "forward" THEN StdWest ELSE DstWest)

\* Hours of local time ahead of UTC (negative) at the instant t.
utcoffset(shift, t) ==
  CASE shift = "none"    -> 0 - StdWest
    [] shift = "forward" -> IF t < Transition(shift)
                              THEN 0 - StdWest ELSE 0 - DstWest
    [] shift = "back"    -> IF t < Transition(shift)
                              THEN 0 - DstWest ELSE 0 - StdWest

\* The wall clock of the zone at the instant t, in hours.
Local(shift, t) == t + utcoffset(shift, t)

LocalDay(shift, t) == Local(shift, t) \div HoursPerDay

LocalHour(shift, t) == Local(shift, t) % HoursPerDay

\* cli.get_next_check_time.  astimezone(pst) gives a datetime whose tzinfo
\* is the pytz zone at its offset of that instant; replace() and
\* `+ timedelta` keep that tzinfo, so the target is turned back to UTC with
\* the offset of current_time, whatever the zone's offset at the target.
get_next_check_time(shift, current_time) ==
  LET offset == utcoffset(shift, current_time)
      current_time_pst == current_time + offset
      target_time ==
        (current_time_pst \div HoursPerDay) * HoursPerDay + TargetHour
  IN  IF current_time_pst > target_time
        THEN target_time + HoursPerDay - offset
        ELSE target_time - offset

\* No call of get_next_check_time on its own is modelled.
NoCheck == [state |-> "none", shift |-> "none", now |-> 0, next_run |-> 0]

\* ------------------------------------------------------------- actions

Init ==
  /\ file \in {MissingFile, CorruptFile, BadShapeFile}
                \cup {OkFile(l, 0) :
                        l \in UNION {Orderings(s) : s \in SUBSET ReviewIds}}
  /\ now = 0
  /\ pc = [p \in Procs |-> "idle"]
  /\ dry_run = [p \in Procs |-> FALSE]
  /\ webhook_set = [p \in Procs |-> FALSE]
  /\ reviews = [p \in Procs |-> <<>>]
  /\ processed_ids = [p \in Procs |-> {}]
  /\ new_reviews = [p \in Procs |-> <<>>]
  /\ cli_new_reviews = [p \in Procs |-> <<>>]
  /\ queue = [p \in Procs |-> <<>>]
  /\ outcome = [p \in Procs |-> NoOutcome]
  /\ posts = [p \in Procs |-> <<>>]
  /\ delivered = PersistedIds(file)
  /\ file0 = [p \in Procs |-> MissingFile]
  /\ hist = NoHist
  /\ api = NoCall
  /\ check = NoCheck

\* cli.main up to the call of process_reviews: a missing APP_ID raises
\* ValueError before anything else happens.
Begin(p, dry, app_id_set) ==
  /\ pc[p] = "idle"
  /\ now < MaxRuns
  /\ now' = now + 1
  /\ pc' = [pc EXCEPT ![p] = IF app_id_set THEN "fetch" ELSE "error"]
  /\ outcome' = [outcome EXCEPT ![p].error =
                   IF app_id_set THEN NoError ELSE ConfigError("APP_ID")]
  /\ dry_run' = [dry_run EXCEPT ![p] = dry]
  /\ file0' = [file0 EXCEPT ![p] = file]
  /\ UNCHANGED <<api, check, file, webhook_set, reviews, processed_ids, new_reviews,
                 cli_new_reviews, queue, posts, delivered, hist>>

\* A run starts when no other run is under way (the scheduler's promise).
\* The processes are interchangeable, so such a run is given to a fixed one.
StartRun(p) ==
  /\ \A q \in Procs : pc[q] = "idle"
  /\ p = CHOOSE q \in Procs : TRUE
  /\ \E dry \in BOOLEAN, app_id_set \in BOOLEAN : Begin(p, dry, app_id_set)

\* A process_reviews without its `except Exception`: the exception of a
\* failed fetch, load or save ends cli.main.
ProcessEndsRaising(p, result, how, out) ==
  IF how = "swallowed"
    THEN /\ outcome' = [outcome EXCEPT ![p] = [out EXCEPT !.process = "raised"]]
         /\ pc' = [pc EXCEPT ![p] = "error"]
         /\ UNCHANGED cli_new_reviews
    ELSE /\ cli_new_reviews' = [cli_new_reviews EXCEPT ![p] = result]
         /\ outcome' = [outcome EXCEPT ![p] = [out EXCEPT !.process = how]]
         /\ pc' = [pc EXCEPT ![p] = "returned"]

\* process_reviews returns `result` to cli.main; how is "returned" for the
\* return statements of the try block and "swallowed" for the except
\* branch, which logs and returns [].  (An exception leaving
\* process_reviews would be "raised": `except Exception` lets none out.)
ProcessEnds(p, result, how, out) ==
  /\ cli_new_reviews' = [cli_new_reviews EXCEPT ![p] = result]
  /\ outcome' = [outcome EXCEPT ![p] = [out EXCEPT !.process = how]]
  /\ pc' = [pc EXCEPT ![p] = "returned"]

\* A process_reviews that fetches again when the fetch raised.
FetchFailsRetries(p) ==
  /\ pc[p] = "fetch"
  /\ outcome' = [outcome EXCEPT ![p].fetch = "raised", ![p].fetches = @ + 1]
  /\ UNCHANGED <<api, check, file, now, pc, dry_run, webhook_set, reviews,
                 processed_ids, new_reviews, cli_new_reviews, queue, posts,
                 delivered, file0, hist>>

\* get_recent_reviews raises (APIError, or anything else).
FetchFails(p) ==
  /\ pc[p] = "fetch"
  /\ ProcessEnds(p, <<>>, "swallowed",
                 [outcome[p] EXCEPT !.fetch = "raised", !.fetches = @ + 1])
  /\ UNCHANGED <<api, check, file, now, dry_run, webhook_set, reviews, processed_ids,
                 new_reviews, queue, posts, delivered, file0, hist>>

\* get_recent_reviews returns r.
FetchReturns(p) ==
  /\ pc[p] = "fetch"
  /\ \E r \in FetchResults :
       /\ reviews' = [reviews EXCEPT ![p] = r]
       /\ IF NothingFetched(r)
            THEN ProcessEnds(p, <<>>, "returned",
                             [outcome[p] EXCEPT !.fetch = "ok",
                                                !.fetches = @ + 1])
            ELSE /\ pc' = [pc EXCEPT ![p] = "load"]
                 /\ outcome' = [outcome EXCEPT ![p].fetch = "ok",
                                               ![p].fetches = @ + 1]
                 /\ UNCHANGED cli_new_reviews
  /\ UNCHANGED <<api, check, file, now, dry_run, webhook_set, processed_ids, new_reviews,
                 queue, posts, delivered, file0, hist>>

\* load_processed_reviews, then the filter loop; readable is whether the
\* file system lets the file be opened.
Load(p) ==
  /\ pc[p] = "load"
  /\ \E readable \in BOOLEAN :
       LET res == load_processed_reviews(file, readable)
           ids == Range(res.review_ids)
           f   == FilterNew(reviews[p], ids)
           out == [outcome[p] EXCEPT
                     !.loads = @ + 1,
                     !.load = IF res.raised THEN "raised" ELSE "returned",
                     !.loaded = ids,
                     !.loaded_last_run = res.last_run]
       IN  IF res.raised
             THEN /\ ProcessEnds(p, <<>>, "swallowed", out)
                  /\ UNCHANGED <<processed_ids, new_reviews>>
             ELSE /\ processed_ids' = [processed_ids EXCEPT ![p] = f.ids]
                  /\ new_reviews' = [new_reviews EXCEPT ![p] = f.new]
                  /\ IF ShouldSave(f.new)
                       THEN /\ pc' = [pc EXCEPT ![p] = "save_open"]
                            /\ outcome' = [outcome EXCEPT ![p] = out]
                            /\ UNCHANGED cli_new_reviews
                       ELSE ProcessEnds(p, f.new, "returned", out)
  /\ UNCHANGED <<api, check, file, now, dry_run, webhook_set, reviews, queue, posts,
                 delivered, file0, hist>>

\* A save that a dry run skips: process_reviews returns the new reviews and
\* the file is left as it was.
SaveOpenLiveOnly(p) ==
  /\ pc[p] = "save_open"
  /\ IF dry_run[p]
       THEN /\ ProcessEnds(p, new_reviews[p], "returned", outcome[p])
            /\ UNCHANGED <<file, hist>>
       ELSE \E opened \in BOOLEAN :
              LET out == [outcome[p] EXCEPT !.saves = @ + 1] IN
              IF opened
                THEN /\ file' = CorruptFile
                     /\ hist' = [hist EXCEPT !.saved = NoSaved]
                     /\ pc' = [pc EXCEPT ![p] = "save_write"]
                     /\ outcome' = [outcome EXCEPT ![p] = out]
                     /\ UNCHANGED cli_new_reviews
                ELSE /\ ProcessEnds(p, <<>>, "swallowed",
                                    [out EXCEPT !.save = "failed"])
                     /\ UNCHANGED <<file, hist>>
  /\ UNCHANGED <<api, check, now, dry_run, webhook_set, reviews, processed_ids,
                 new_reviews, queue, posts, delivered, file0>>

\* save_processed_reviews, open(path, "w"): the file is created or
\* truncated, or the open fails with IOError and the file is untouched.
SaveOpen(p) ==
  /\ pc[p] = "save_open"
  /\ \E opened \in BOOLEAN :
       LET out == [outcome[p] EXCEPT !.saves = @ + 1] IN
       IF opened
         THEN /\ file' = CorruptFile
              /\ hist' = [hist EXCEPT !.saved = NoSaved]
              /\ pc' = [pc EXCEPT ![p] = "save_write"]
              /\ outcome' = [outcome EXCEPT ![p] = out]
              /\ UNCHANGED cli_new_reviews
         ELSE /\ ProcessEnds(p, <<>>, "swallowed",
                             [out EXCEPT !.save = "failed"])
              /\ UNCHANGED <<file, hist>>
  /\ UNCHANGED <<api, check, now, dry_run, webhook_set, reviews, processed_ids,
                 new_reviews, queue, posts, delivered, file0>>

\* save_processed_reviews, json.dump and the close of the file: the content
\* is written, or an IOError (disk full) leaves the truncated file behind.
SaveWrite(p) ==
  /\ pc[p] = "save_write"
  /\ \E written \in BOOLEAN :
       IF written
         THEN /\ \E new \in save_processed_reviews(processed_ids[p], now) :
                   /\ file' = WriteOver(file, new)
                   /\ hist' = [hist EXCEPT !.saved =
                                  IF WriteOver(file, new) = new
                                    THEN [valid |-> TRUE,
                                          review_ids |-> processed_ids[p],
                                          last_run |-> now]
                                    ELSE NoSaved]
              /\ ProcessEnds(p, new_reviews[p], "returned",
                             [outcome[p] EXCEPT !.save = "ok"])
         ELSE /\ ProcessEnds(p, <<>>, "swallowed",
                             [outcome[p] EXCEPT !.save = "failed"])
              /\ UNCHANGED <<file, hist>>
  /\ UNCHANGED <<api, check, now, dry_run, webhook_set, reviews, processed_ids,
                 new_reviews, queue, posts, delivered, file0>>

\* cli.main after process_reviews: what is handed to
\* send_slack_notification, if anything.  A live run reads
\* SLACK_WEBHOOK_URL here and raises ValueError when it is not set.
Dispatch(p) ==
  /\ pc[p] = "returned"
  /\ IF ~ShouldNotify(dry_run[p])
       THEN /\ pc' = [pc EXCEPT ![p] = "done"]
            /\ UNCHANGED <<queue, webhook_set, outcome>>
       ELSE \E webhook \in BOOLEAN :
              /\ webhook_set' = [webhook_set EXCEPT ![p] = webhook]
              /\ IF ~webhook
                   THEN /\ pc' = [pc EXCEPT ![p] = "error"]
                        /\ outcome' = [outcome EXCEPT ![p].error =
                                         ConfigError("SLACK_WEBHOOK_URL")]
                        /\ UNCHANGED queue
                   ELSE /\ pc' = [pc EXCEPT ![p] = "send"]
                        /\ queue' = [queue EXCEPT ![p] =
                                       NotifierInput(cli_new_reviews[p])]
                        /\ UNCHANGED outcome
  /\ UNCHANGED <<api, check, file, now, dry_run, reviews, processed_ids, new_reviews,
                 cli_new_reviews, posts, delivered, file0, hist>>

\* One pass of the loop of send_slack_notification: one requests.post.
Post(p) ==
  /\ pc[p] = "send"
  /\ queue[p] # <<>>
  /\ \E status \in PostOutcomes :
       /\ posts' = [posts EXCEPT ![p] =
                      Append(@, <<Head(queue[p]).id, status,
                                  MessageLength(Head(queue[p]))>>)]
       /\ delivered' = IF Took(status) /\ Head(queue[p]).id \in ReviewIds
                         THEN delivered \cup {Head(queue[p]).id}
                         ELSE delivered
       /\ queue' = [queue EXCEPT ![p] = AfterPost(status, queue[p]).queue]
       /\ pc' = [pc EXCEPT ![p] = AfterPost(status, queue[p]).pc]
       /\ outcome' = [outcome EXCEPT ![p].error =
                        IF PostAccepted(status)
                          THEN NoError ELSE SlackErrorFor(status)]
  /\ UNCHANGED <<api, check, file, now, dry_run, webhook_set, reviews, processed_ids,
                 new_reviews, cli_new_reviews, file0, hist>>

\* A notifier that posts a "no new reviews" message when called with no
\* review.
SendNothingPosts(p) ==
  /\ pc[p] = "send"
  /\ queue[p] = <<>>
  /\ posts' = [posts EXCEPT ![p] =
                 Append(@, <<NoReviewsId, 200, MessageLength(NoReviewsMessage)>>)]
  /\ pc' = [pc EXCEPT ![p] = "done"]
  /\ UNCHANGED <<api, check, file, now, dry_run, webhook_set, reviews, processed_ids,
                 new_reviews, cli_new_reviews, queue, outcome, delivered,
                 file0, hist>>

\* send_slack_notification called with no review: `if not reviews: return`.
SendNothing(p) ==
  /\ pc[p] = "send"
  /\ queue[p] = <<>>
  /\ pc' = [pc EXCEPT ![p] = "done"]
  /\ UNCHANGED <<api, check, file, now, dry_run, webhook_set, reviews, processed_ids,
                 new_reviews, cli_new_reviews, queue, outcome, posts,
                 delivered, file0, hist>>

\* The process dies (SIGKILL, power loss) inside save_processed_reviews:
\* before open() the file is as it was, after it the file is truncated or
\* holds a prefix of the JSON text, which json.load rejects either way.
Crash(p) ==
  /\ pc[p] \in {"save_open", "save_write"}
  /\ pc' = [pc EXCEPT ![p] = "crashed"]
  /\ outcome' = [outcome EXCEPT ![p].save = "crashed"]
  /\ UNCHANGED <<api, check, file, now, dry_run, webhook_set, reviews, processed_ids,
                 new_reviews, cli_new_reviews, queue, posts, delivered,
                 file0, hist>>

\* No store or fetch failure in the run of p so far.
RunOk(p) ==
  /\ outcome[p].fetch # "raised"
  /\ outcome[p].load # "raised"
  /\ outcome[p].save \notin {"failed", "crashed"}

\* The process is gone (status 0 from "done", non-zero from "error", killed
\* from "crashed"); a run that never called process_reviews leaves no trace.
Exit(p) ==
  /\ pc[p] \in {"done", "error", "crashed"}
  /\ pc' = [pc EXCEPT ![p] = "idle"]
  /\ hist' =
       IF outcome[p].fetch = "none"
         THEN hist
         ELSE LET valid == hist.allOk /\ RunOk(p) /\ Seen0(p) = {} IN
              [returned |-> hist.returned \cup Ids(cli_new_reviews[p]),
               allOk |-> hist.allOk /\ RunOk(p),
               allLive |-> hist.allLive /\ ~dry_run[p],
               prevValid |-> valid,
               prevDry |-> valid /\ dry_run[p],
               prevFetched |-> IF valid THEN reviews[p] ELSE <<>>,
               prevReturned |-> IF valid THEN cli_new_reviews[p] ELSE <<>>,
               saved |-> hist.saved]
  /\ dry_run' = [dry_run EXCEPT ![p] = FALSE]
  /\ webhook_set' = [webhook_set EXCEPT ![p] = FALSE]
  /\ reviews' = [reviews EXCEPT ![p] = <<>>]
  /\ processed_ids' = [processed_ids EXCEPT ![p] = {}]
  /\ new_reviews' = [new_reviews EXCEPT ![p] = <<>>]
  /\ cli_new_reviews' = [cli_new_reviews EXCEPT ![p] = <<>>]
  /\ queue' = [queue EXCEPT ![p] = <<>>]
  /\ outcome' = [outcome EXCEPT ![p] = NoOutcome]
  /\ posts' = [posts EXCEPT ![p] = <<>>]
  /\ file0' = [file0 EXCEPT ![p] = MissingFile]
  /\ UNCHANGED <<api, check, file, now, delivered>>

Next ==
  \E p \in Procs :
    \/ StartRun(p)
    \/ FetchFails(p)
    \/ FetchReturns(p)
    \/ Load(p)
    \/ SaveOpen(p)
    \/ SaveWrite(p)
    \/ Dispatch(p)
    \/ Post(p)
    \/ Exit(p)

Spec == Init /\ [][Next]_vars

\* requests.get in make_api_request is called without a timeout: a review
\* source that accepts the connection and never answers blocks the call,
\* and with it the run, for ever.
FetchBlocks(p) ==
  /\ pc[p] = "fetch"
  /\ pc' = [pc EXCEPT ![p] = "blocked"]
  /\ UNCHANGED <<api, check, file, now, dry_run, webhook_set, reviews, processed_ids,
                 new_reviews, cli_new_reviews, queue, outcome, posts,
                 delivered, file0, hist>>

\* requests.post in send_slack_notification is called without a timeout: a
\* webhook that never answers blocks the call for ever.
PostBlocks(p) ==
  /\ pc[p] = "send"
  /\ queue[p] # <<>>
  /\ pc' = [pc EXCEPT ![p] = "blocked"]
  /\ UNCHANGED <<api, check, file, now, dry_run, webhook_set, reviews, processed_ids,
                 new_reviews, cli_new_reviews, queue, outcome, posts,
                 delivered, file0, hist>>

\* The runs of Spec with a source or a webhook that may never answer.  The
\* steps of a run are fair: whatever can still happen does happen.
NextBlock == Next \/ \E p \in Procs : FetchBlocks(p) \/ PostBlocks(p)

SpecBlock == Init /\ [][NextBlock]_vars /\ WF_vars(NextBlock)

\* The runs of Spec, any of which may be killed while it saves.
NextCrash == Next \/ \E p \in Procs : Crash(p)

SpecCrash == Init /\ [][NextCrash]_vars

\* send_slack_notification on its own: one call with any list of reviews,
\* the empty one included (cli.main never passes it).  cli_new_reviews
\* keeps the argument.
InitNotify ==
  /\ file = MissingFile
  /\ now = 0
  /\ \E input \in FetchResults :
       LET caller == CHOOSE q \in Procs : TRUE IN
       /\ pc = [p \in Procs |-> IF p = caller THEN "send" ELSE "idle"]
       /\ webhook_set = [p \in Procs |-> p = caller]
       /\ cli_new_reviews = [p \in Procs |-> IF p = caller THEN input ELSE <<>>]
       /\ queue = [p \in Procs |-> IF p = caller THEN input ELSE <<>>]
  /\ dry_run = [p \in Procs |-> FALSE]
  /\ reviews = [p \in Procs |-> <<>>]
  /\ processed_ids = [p \in Procs |-> {}]
  /\ new_reviews = [p \in Procs |-> <<>>]
  /\ outcome = [p \in Procs |-> NoOutcome]
  /\ posts = [p \in Procs |-> <<>>]
  /\ delivered = {}
  /\ file0 = [p \in Procs |-> MissingFile]
  /\ hist = NoHist
  /\ api = NoCall
  /\ check = NoCheck

NextNotify == \E p \in Procs : SendNothing(p) \/ Post(p)

SpecNotify == InitNotify /\ [][NextNotify]_vars

\* Two runs side by side, against the scheduler's promise: both call
\* process_reviews at the same time and their steps interleave in every
\* way (the file is first touched at the load, so a common start loses no
\* interleaving).  The runs are followed up to the return of
\* process_reviews.
StartBoth ==
  /\ \A q \in Procs : pc[q] = "idle"
  /\ now' = now + 1
  /\ pc' = [q \in Procs |-> "fetch"]
  /\ file0' = [q \in Procs |-> file]
  /\ UNCHANGED <<api, check, file, dry_run, webhook_set, reviews, processed_ids,
                 new_reviews, cli_new_reviews, queue, outcome, posts,
                 delivered, hist>>

NextOverlap ==
  \/ StartBoth
  \/ \E p \in Procs :
       \/ FetchFails(p)
       \/ FetchReturns(p)
       \/ Load(p)
       \/ SaveOpen(p)
       \/ SaveWrite(p)

SpecOverlap == Init /\ [][NextOverlap]_vars

\* get_recent_reviews on its own: one call with any app id, lookback,
\* credentials and answer of the review source.
InitFetch ==
  /\ file = MissingFile
  /\ now = 0
  /\ pc = [p \in Procs |-> "idle"]
  /\ dry_run = [p \in Procs |-> FALSE]
  /\ webhook_set = [p \in Procs |-> FALSE]
  /\ reviews = [p \in Procs |-> <<>>]
  /\ processed_ids = [p \in Procs |-> {}]
  /\ new_reviews = [p \in Procs |-> <<>>]
  /\ cli_new_reviews = [p \in Procs |-> <<>>]
  /\ queue = [p \in Procs |-> <<>>]
  /\ outcome = [p \in Procs |-> NoOutcome]
  /\ posts = [p \in Procs |-> <<>>]
  /\ delivered = {}
  /\ file0 = [p \in Procs |-> MissingFile]
  /\ hist = NoHist
  /\ \E app_id \in {"numeric", "not_numeric"}, days \in Days,
        credentials \in BOOLEAN, resp \in Responses :
       api = [state |-> "called", app_id |-> app_id, days |-> days,
              credentials |-> credentials, response |-> resp,
              result |-> FetchRaised(0), seen |-> {}, new_reviews |-> <<>>]
  /\ check = NoCheck

\* The call runs to its return or its raise.
GetRecentReviews ==
  /\ api.state = "called"
  /\ api' = [api EXCEPT
              !.state = "ended",
              !.result = get_recent_reviews(api.app_id, api.days,
                                            api.credentials, api.response)]
  /\ UNCHANGED <<check, file, now, pc, dry_run, webhook_set, reviews,
                 processed_ids, new_reviews, cli_new_reviews, queue, outcome,
                 posts, delivered, file0, hist>>

NextFetch == GetRecentReviews

SpecFetch == InitFetch /\ [][NextFetch]_vars

\* get_next_check_time on its own: one call at any instant of ClockDays
\* days, with or without a change of the clocks in them.
InitClock ==
  /\ file = MissingFile
  /\ now = 0
  /\ pc = [p \in Procs |-> "idle"]
  /\ dry_run = [p \in Procs |-> FALSE]
  /\ webhook_set = [p \in Procs |-> FALSE]
  /\ reviews = [p \in Procs |-> <<>>]
  /\ processed_ids = [p \in Procs |-> {}]
  /\ new_reviews = [p \in Procs |-> <<>>]
  /\ cli_new_reviews = [p \in Procs |-> <<>>]
  /\ queue = [p \in Procs |-> <<>>]
  /\ outcome = [p \in Procs |-> NoOutcome]
  /\ posts = [p \in Procs |-> <<>>]
  /\ delivered = {}
  /\ file0 = [p \in Procs |-> MissingFile]
  /\ hist = NoHist
  /\ api = NoCall
  /\ \E shift \in Shifts, current_time \in Instants :
       check = [state |-> "called", shift |-> shift, now |-> current_time,
                next_run |-> 0]

\* The call returns.
GetNextCheckTime ==
  /\ check.state = "called"
  /\ check' = [check EXCEPT
                !.state = "ended",
                !.next_run = get_next_check_time(check.shift, check.now)]
  /\ UNCHANGED <<api, file, now, pc, dry_run, webhook_set, reviews,
                 processed_ids, new_reviews, cli_new_reviews, queue, outcome,
                 posts, delivered, file0, hist>>

NextClock == GetNextCheckTime

SpecClock == InitClock /\ [][NextClock]_vars

\* The source records of the runs below: with an id or without, complete or
\* with no attribute at all, all of them inside every window.
IdItems ==
  {[has_attributes |-> TRUE, id |-> i, attrs |-> a,
    date |-> [kind |-> "aware", t |-> EndDate]] :
     i \in {"r1", "r2", "absent"}, a \in {Complete, [f \in Fields |-> "absent"]}}

\* The seen sets a load may return to such a run.
SeenSets == SUBSET {"", "r1"}

\* process_reviews over a source whose records may lack their id: the call
\* of get_recent_reviews with the source's answer, then the load and the
\* filter loop.
InitIdless ==
  /\ file = MissingFile
  /\ now = 0
  /\ pc = [p \in Procs |-> "idle"]
  /\ dry_run = [p \in Procs |-> FALSE]
  /\ webhook_set = [p \in Procs |-> FALSE]
  /\ reviews = [p \in Procs |-> <<>>]
  /\ processed_ids = [p \in Procs |-> {}]
  /\ new_reviews = [p \in Procs |-> <<>>]
  /\ cli_new_reviews = [p \in Procs |-> <<>>]
  /\ queue = [p \in Procs |-> <<>>]
  /\ outcome = [p \in Procs |-> NoOutcome]
  /\ posts = [p \in Procs |-> <<>>]
  /\ delivered = {}
  /\ file0 = [p \in Procs |-> MissingFile]
  /\ hist = NoHist
  /\ check = NoCheck
  /\ \E items \in UNION {[1..n -> IdItems] : n \in 0..MaxFetch} :
       api = [state |-> "called", app_id |-> "numeric", days |-> MaxDays,
              credentials |-> TRUE,
              response |-> [kind |-> "answer", status |-> 200,
                            body |-> Body("data", items)],
              result |-> FetchRaised(0), seen |-> {}, new_reviews |-> <<>>]

\* process_reviews after the fetch has returned: nothing more on an empty
\* result, else the load, which returns some seen set, and the filter loop.
ProcessFetched ==
  /\ api.state = "ended"
  /\ ~api.result.raised
  /\ IF NothingFetched(api.result.reviews)
       THEN api' = [api EXCEPT !.state = "processed"]
       ELSE \E seen \in SeenSets :
              api' = [api EXCEPT
                       !.state = "processed",
                       !.seen = seen,
                       !.new_reviews = FilterNew(api.result.reviews, seen).new]
  /\ UNCHANGED <<check, file, now, pc, dry_run, webhook_set, reviews,
                 processed_ids, new_reviews, cli_new_reviews, queue, outcome,
                 posts, delivered, file0, hist>>

NextIdless == GetRecentReviews \/ ProcessFetched

SpecIdless == InitIdless /\ [][NextIdless]_vars

TypeOK ==
  /\ file \in Files
  /\ now \in 0..MaxRuns
  /\ pc \in [Procs -> {"idle", "fetch", "load", "save_open", "save_write",
                       "returned", "send", "done", "error", "crashed",
                       "blocked"}]
  /\ \A p \in Procs :
       /\ reviews[p] \in FetchResults
       /\ new_reviews[p] \in FetchResults
       /\ cli_new_reviews[p] \in FetchResults
       /\ processed_ids[p] \subseteq ReviewIds
  /\ delivered \subseteq ReviewIds

\* ------------------------------------------------------------- claims

\* The subsequence of revs at the indices of I, in the order of revs.
Sub(revs, I) ==
  LET n == Cardinality(I)
      f == CHOOSE g \in [1..n -> I] : \A a, b \in 1..n : a < b => g[a] < g[b]
  IN  [k \in 1..n |-> revs[f[k]]]

\* The indices of revs whose id is not in seen.
Unseen(revs, seen) == {i \in 1..Len(revs) : revs[i].id \notin seen}

\* The indices of revs that are the first with their id.
First(revs) ==
  {i \in 1..Len(revs) : \A j \in 1..(i - 1) : revs[j].id # revs[i].id}

\* process_reviews has returned to cli.main in the run of p.
ProcessReturned(p) == outcome[p].process # "none"

\* The run of p replays the fetch of the run before it, which started from
\* an empty seen set, and no fetch, load or save failed so far.
Replay(p) ==
  /\ ProcessReturned(p)
  /\ hist.allOk /\ RunOk(p)
  /\ hist.prevValid
  /\ reviews[p] = hist.prevFetched

\* C1 (as amended): while fetch, load and save all succeed, an id returned
\* by one run is never returned by a later run; and of two consecutive runs
\* over the same fetch result, the first of them starting from an empty seen
\* set, run 1 returns the first fetched review of every id, in fetch order,
\* and run 2 returns nothing.
C1_DedupAcrossRuns ==
  \A p \in Procs :
    /\ (ProcessReturned(p) /\ hist.allOk /\ RunOk(p))
         => Ids(cli_new_reviews[p]) \cap hist.returned = {}
    /\ Replay(p)
         => /\ hist.prevReturned = Sub(hist.prevFetched, First(hist.prevFetched))
            /\ cli_new_reviews[p] = <<>>

\* C1 as stated: run 1 returns every fetched review, that is, every review
\* of the fetch result is among the reviews run 1 returned.
C1_Original ==
  \A p \in Procs :
    /\ (ProcessReturned(p) /\ hist.allOk /\ RunOk(p))
         => Ids(cli_new_reviews[p]) \cap hist.returned = {}
    /\ Replay(p)
         => /\ Range(hist.prevFetched) \subseteq Range(hist.prevReturned)
            /\ cli_new_reviews[p] = <<>>

\* Run 2 has replayed a fetch of two reviews, one of which run 1 dropped.
C1_Witness ==
  \E p \in Procs :
    /\ Replay(p)
    /\ Len(reviews[p]) = 2
    /\ Len(hist.prevReturned) = 1
    /\ cli_new_reviews[p] = <<>>

\* C2: when process_reviews has returned, the reviews it returned are all
\* fetched ones, their ids are disjoint from the seen set S persisted before
\* the call, and the persisted seen set is S union the returned ids.
C2_ProcessPostcondition ==
  \A p \in Procs :
    ProcessReturned(p)
      => /\ Range(cli_new_reviews[p]) \subseteq Range(reviews[p])
         /\ Ids(cli_new_reviews[p]) \cap Seen0(p) = {}
         /\ PersistedIds(file) = Seen0(p) \cup Ids(cli_new_reviews[p])

\* C2 in the runs in which no save fails after it has opened the file.
C2_UnlessTruncated ==
  \A p \in Procs :
    (ProcessReturned(p) /\ ~(outcome[p].save = "failed" /\ file = CorruptFile))
      => /\ Range(cli_new_reviews[p]) \subseteq Range(reviews[p])
         /\ Ids(cli_new_reviews[p]) \cap Seen0(p) = {}
         /\ PersistedIds(file) = Seen0(p) \cup Ids(cli_new_reviews[p])

\* The load of the run of p returned a seen set, and neither it nor the save
\* failed.
StoreWorked(p) ==
  /\ ProcessReturned(p)
  /\ outcome[p].load = "returned"
  /\ outcome[p].save # "failed"

RunEnded(p) == pc[p] \in {"done", "error"}

\* C4: at the end of a live run with a webhook configured, all runs before
\* it live too, every id in the persisted seen set belongs to a review that
\* the webhook took at least once (the ids of the initial file count as
\* delivered).
C4_SeenImpliesDelivered ==
  \A p \in Procs :
    (RunEnded(p) /\ ~dry_run[p] /\ webhook_set[p] /\ hist.allLive)
      => PersistedIds(file) \subseteq delivered

\* C5: when the fetch fails, process_reviews propagates the failure instead
\* of returning a result, and the run loads nothing, saves nothing and
\* delivers nothing.
C5_FetchFailurePropagates ==
  \A p \in Procs :
    outcome[p].fetch = "raised"
      => /\ outcome[p].process = "raised"
         /\ outcome[p].loads = 0
         /\ outcome[p].saves = 0
         /\ posts[p] = <<>>

\* C6: a live run whose fetch fails does not end in DONE and makes no
\* notifier call, neither for a review nor for the status message.
C6_FetchFailureIsAnError ==
  \A p \in Procs :
    (outcome[p].fetch = "raised" /\ ~dry_run[p])
      => /\ pc[p] # "done"
         /\ posts[p] = <<>>

\* C7: when the save fails, process_reviews does not swallow the failure,
\* it hands the reviews computed as new to its caller, and a live run with
\* a webhook then posts the first of them.
C7_SaveFailureStillDelivers ==
  \A p \in Procs :
    (outcome[p].save = "failed" /\ ProcessReturned(p))
      => /\ outcome[p].process # "swallowed"
         /\ cli_new_reviews[p] = new_reviews[p]
         /\ (RunEnded(p) /\ ~dry_run[p] /\ webhook_set[p])
              => /\ posts[p] # <<>>
                 /\ posts[p][1][1] = new_reviews[p][1].id

\* C8: when the fetch returns no review, process_reviews returns the empty
\* sequence and the seen-set file is neither read nor written.
C8_EmptyFetchTouchesNothing ==
  \A p \in Procs :
    (outcome[p].fetch = "ok" /\ reviews[p] = <<>>)
      => /\ ProcessReturned(p)
         /\ cli_new_reviews[p] = <<>>
         /\ outcome[p].loads = 0
         /\ outcome[p].saves = 0
         /\ file = file0[p]

\* A run has fetched an empty result while the file holds ids.
C8_Witness ==
  \E p \in Procs :
    /\ outcome[p].fetch = "ok"
    /\ reviews[p] = <<>>
    /\ ProcessReturned(p)
    /\ file.review_ids # <<>>

\* The filter loop found something new in the run of p.
FoundNew(p) == outcome[p].load = "returned" /\ new_reviews[p] # <<>>

\* C9: a run calls save at most once, and once process_reviews has returned
\* it has called save exactly when the filter found a new review; a run in
\* which every fetched review is already seen leaves the file (review_ids
\* and last_run) as it was.
C9_SaveOnlyWhenNew ==
  \A p \in Procs :
    /\ outcome[p].saves <= 1
    /\ outcome[p].saves = 1 => FoundNew(p)
    /\ ProcessReturned(p) => (outcome[p].saves = 1 <=> FoundNew(p))
    /\ (outcome[p].load = "returned" /\ new_reviews[p] = <<>>)
         => file = file0[p]

\* A run over fetched reviews that are all seen has returned, the file
\* still holding the last_run of an earlier run.
C9_Witness ==
  \E p \in Procs :
    /\ ProcessReturned(p)
    /\ outcome[p].load = "returned"
    /\ reviews[p] # <<>>
    /\ new_reviews[p] = <<>>
    /\ file.kind = "ok"
    /\ file.last_run # 0
    /\ file.last_run < now

\* C10: load never raises, whatever the state of the file, and returns the
\* empty seen set unless the file is well formed.
C10_LoadNeverRaises ==
  \A p \in Procs :
    outcome[p].loads > 0
      => /\ outcome[p].load = "returned"
         /\ file0[p].kind # "ok" => outcome[p].loaded = {}

\* C11: a save is crash-atomic.  When the process is killed at any point
\* of save_processed_reviews, the file holds the complete previous content
\* or the complete new content, never a truncated file that a later load
\* takes for an empty seen set.
C11_SaveCrashAtomic ==
  \A p \in Procs :
    pc[p] = "crashed"
      => \/ file = file0[p]
         \/ file \in save_processed_reviews(processed_ids[p], now)

\* C12: save and load round-trip.  After a save of the set S with the
\* time t has completed, the next load that returns gives a list whose
\* elements are exactly S, whatever its order, and last_run t.
C12_SaveLoadRoundTrip ==
  \A p \in Procs :
    (outcome[p].load = "returned" /\ outcome[p].saves = 0 /\ hist.saved.valid)
      => /\ outcome[p].loaded = hist.saved.review_ids
         /\ outcome[p].loaded_last_run = hist.saved.last_run

\* A load has returned what an earlier run saved: both ids, at a time that
\* is not the default.
C12_Witness ==
  \E p \in Procs :
    /\ outcome[p].load = "returned"
    /\ outcome[p].saves = 0
    /\ hist.saved.valid
    /\ hist.saved.review_ids = ReviewIds
    /\ hist.saved.last_run > 0
    /\ outcome[p].loaded = ReviewIds

\* The ids send_slack_notification has posted in the run of p, in order.
Sent(p) == [i \in 1..Len(posts[p]) |-> posts[p][i][1]]

\* The ids of revs, in order.
IdsOf(revs) == [i \in 1..Len(revs) |-> revs[i].id]

\* send_slack_notification was called in the run of p and has ended.
NotifyEnded(p) ==
  /\ pc[p] \in {"done", "error"}
  /\ ShouldNotify(dry_run[p])
  /\ webhook_set[p]

\* C13: fan-out isolation.  A POST that fails for one review does not keep
\* the notifier from attempting a POST for each review after it: when the
\* notifier has ended, every review handed to it has been posted.
C13_FanOutIsolation ==
  \A p \in Procs :
    NotifyEnded(p) => Sent(p) = IdsOf(NotifierInput(cli_new_reviews[p]))

C16_FailedPostRaisesNoRetry ==
  \A p \in Procs :
    LET input == IdsOf(NotifierInput(cli_new_reviews[p])) IN
    /\ \A i \in 1..Len(posts[p]) :
         ~Took(posts[p][i][2])
           => /\ i = Len(posts[p])
              /\ pc[p] = "error"
              /\ outcome[p].error.type = "SlackError"
              /\ outcome[p].error.text = posts[p][i][2]
    /\ Len(posts[p]) <= Len(input)
    /\ \A i \in 1..Len(posts[p]) : Sent(p)[i] = input[i]
    /\ \A i, j \in 1..Len(posts[p]) : Sent(p)[i] = Sent(p)[j] => i = j

\* A notifier call has raised at its second POST, after an accepted first
\* one.
C16_Witness ==
  \E p \in Procs :
    /\ pc[p] = "error"
    /\ Len(posts[p]) = 2
    /\ PostAccepted(posts[p][1][2])
    /\ ~Took(posts[p][2][2])
    /\ outcome[p].error.type = "SlackError"

\* C17: every 2xx answer counts as success.  A POST answered 200, 201, 204
\* or any other 2xx status does not fail the notifier call: no SlackError
\* is raised for it.
C17_Any2xxIsSuccess ==
  \A p \in Procs :
    \A i \in 1..Len(posts[p]) :
      Took(posts[p][i][2])
        => ~(i = Len(posts[p]) /\ pc[p] = "error")

\* C18: a dry run never notifies.  Whether a dry run finds new reviews,
\* finds none or fails, the notifier is not entered and no POST is made.
C18_DryRunNeverPosts ==
  \A p \in Procs :
    dry_run[p]
      => /\ posts[p] = <<>>
         /\ queue[p] = <<>>
         /\ pc[p] # "send"

\* A dry run that found new reviews has ended.
C18_Witness ==
  \E p \in Procs :
    /\ dry_run[p]
    /\ pc[p] = "done"
    /\ cli_new_reviews[p] # <<>>

\* A live run whose fetch succeeded and to which process_reviews returned
\* no review has ended.
NothingNewEnded(p) ==
  /\ RunEnded(p)
  /\ ~dry_run[p]
  /\ outcome[p].fetch = "ok"
  /\ cli_new_reviews[p] = <<>>

C20_ConfigCheckedFirst ==
  \A p \in Procs :
    outcome[p].error.type = "ValueError"
      => /\ outcome[p].fetch = "none"
         /\ posts[p] = <<>>
         /\ outcome[p].saves = 0
         /\ file = file0[p]

\* C21: the exit status of a live run whose fetch succeeded.  When the
\* destination took the message of at least one of the new reviews, the run
\* ends successfully although the POST for another review failed; it fails
\* only when every delivery failed.
C21_PartialDeliveryExitsZero ==
  \A p \in Procs :
    ( /\ NotifyEnded(p)
      /\ outcome[p].fetch = "ok"
      /\ cli_new_reviews[p] # <<>>
      /\ \E i \in 1..Len(posts[p]) : PostAccepted(posts[p][i][2]) )
      => pc[p] = "done"

\* The call of get_recent_reviews has ended.
FetchEnded == api.state = "ended"

\* C22: fetch is all-or-nothing.  With credentials missing, a network
\* failure, an answer that is not 2xx, or a body without the 'data'
\* container, get_recent_reviews raises APIError and returns no review.
C22_FetchAllOrNothing ==
  ( /\ FetchEnded
    /\ \/ ~api.credentials
       \/ api.response.kind = "exception"
       \/ ~Took(api.response.status)
       \/ api.response.body.kind # "data" )
    => /\ api.result.raised
       /\ api.result.reviews = <<>>

\* A call whose answer was a 500 carrying a well-formed record has ended
\* with APIError.
C22_Witness ==
  /\ FetchEnded
  /\ api.credentials
  /\ api.response.kind = "answer"
  /\ api.response.status = 500
  /\ api.response.body.data # <<>>
  /\ api.result.raised

\* C23: every review get_recent_reviews returns was created inside the
\* window [now - lookback, now], whatever records the source sent.
C23_ReturnedInsideWindow ==
  (FetchEnded /\ ~api.result.raised)
    => \A i \in 1..Len(api.result.reviews) :
         LET date == api.result.reviews[i].date IN
         /\ date.kind = "aware"
         /\ EndDate - api.days <= date.t
         /\ date.t <= EndDate

\* The source sent a record from before the window and one inside it, and
\* the call returned the second only.
C23_Witness ==
  /\ FetchEnded
  /\ ~api.result.raised
  /\ api.days > 0
  /\ Len(api.response.body.data) = 2
  /\ api.response.body.data[1].date.kind = "aware"
  /\ api.response.body.data[1].date.t < EndDate - api.days
  /\ Len(api.result.reviews) = 1
  /\ api.result.reviews[1].date.t = EndDate - api.days

\* The source answered 200 with an object whose 'data' is a list, and the
\* credentials were set.
SourceAnswered ==
  /\ api.credentials
  /\ api.response.kind = "answer"
  /\ api.response.status = 200
  /\ api.response.body.kind = "data"

\* C24: a record whose creation date cannot be read as a timestamp
\* comparable with the window (absent, empty, null, unparsable, without a
\* timezone) is dropped on its own: the call succeeds and returns every
\* record whose date lies inside the window.
C24_BadDateDropsOneRecord ==
  (FetchEnded /\ SourceAnswered)
    => LET ok(r) == /\ r.date.kind = "aware"
                    /\ EndDate - api.days <= r.date.t
                    /\ r.date.t <= EndDate
       IN  /\ ~api.result.raised
           /\ api.result.reviews =
                SelectSeq(Extract(api.response.body.data), ok)

\* C25: normalisation.  Every review get_recent_reviews returns carries
\* every canonical field, holding the source's value or, where the source
\* record lacks it, the field's default; no field is absent or null.
C25_ReturnedReviewsNormalised ==
  (FetchEnded /\ ~api.result.raised)
    => \A i \in 1..Len(api.result.reviews) :
         LET r == api.result.reviews[i] IN
         /\ DOMAIN r.fields = Fields
         /\ \A f \in Fields : r.fields[f] \in {"value", Default(f)}

\* C26: the message length cap.  The text of every POST is at most MaxText
\* characters long: a rendering that would be longer is truncated.
C26_TextWithinCap ==
  \A p \in Procs :
    \A i \in 1..Len(posts[p]) : posts[p][i][3] <= MaxText

\* C27: every run terminates.  A run that has started reaches the end of
\* cli.main, by return or by raise, even when the review source or the
\* webhook never answers.
C27_EveryRunTerminates ==
  \A p \in Procs : (pc[p] # "idle") ~> (pc[p] \in {"done", "error"})

\* The app each process watches when the two run side by side.
AppOf(p) == IF p = "p1" THEN "appA" ELSE "appB"

\* The content of the file at a path: there is the one path.
FileAt(path) == file

\* The persisted seen set of an app.
SeenSetOf(app_id) == PersistedIds(FileAt(get_processed_reviews_file(app_id)))

\* process_reviews has returned in both runs, and no fetch, load or save
\* failed in either.
BothReturnedOk ==
  \A p \in Procs :
    /\ pc[p] = "returned"
    /\ outcome[p].process = "returned"
    /\ RunOk(p)

\* C28: runs for different app ids share no mutable state.  Whatever the
\* interleaving of a run for app A with a run for app B, each run returns
\* what it would return alone, and the seen set of its app ends as it
\* would alone: the set it started from plus the ids it returned.
C28_AppsShareNothing ==
  BothReturnedOk
    => \A p \in Procs :
         /\ cli_new_reviews[p] = FilterNew(reviews[p], Seen0(p)).new
         /\ SeenSetOf(AppOf(p)) = Seen0(p) \cup Ids(cli_new_reviews[p])

\* Every review some run fetched whose id was not in the seen set when the
\* runs started has been returned by at least one of the runs.
NoneLost ==
  \A p \in Procs :
    \A i \in 1..Len(reviews[p]) :
      reviews[p][i].id \notin Seen0(p)
        => \E q \in Procs : reviews[p][i].id \in Ids(cli_new_reviews[q])

\* The file holds what the save that completed last was given.
LastSaveWon ==
  /\ hist.saved.valid
  /\ file.kind = "ok"
  /\ PersistedIds(file) = hist.saved.review_ids
  /\ file.last_run = hist.saved.last_run

\* The part of C29 on the reviews: in two overlapping runs without a fetch,
\* load or save failure no review that was new at the start is lost.
C29_NoneLost == BothReturnedOk => NoneLost

\* C29: two overlapping runs on the one seen-set file.  Under every
\* interleaving of their load and save steps the last save wins (the file
\* ends as the content of the save that completed last, the ids of the
\* other save possibly missing), and no review that was new when the runs
\* started is lost: at least one of the runs returns it.
C29_OverlapLastSaveWins ==
  (BothReturnedOk /\ \E p \in Procs : outcome[p].save = "ok")
    => LastSaveWon /\ NoneLost

\* C30: input constraints are enforced.  A call with a negative lookback or
\* with an app id that is not numeric is rejected with an error before any
\* request is made to the review source.
C30_BadInputRejectedBeforeFetch ==
  (FetchEnded /\ (api.days < 0 \/ api.app_id # "numeric"))
    => /\ api.result.raised
       /\ api.result.requests = 0

\* The stages of one run of cli.main, in the order of the code: the fetch,
\* the load, the two steps of the save, the return of process_reviews, the
\* notifier, the end.
Stage(at) ==
  CASE at = "idle" -> 0
    [] at = "fetch" -> 1
    [] at = "load" -> 2
    [] at = "save_open" -> 3
    [] at = "save_write" -> 4
    [] at = "returned" -> 5
    [] at = "send" -> 6
    [] OTHER -> 7

\* The save of the run of p, if it was started, has ended.
SaveOver(p) ==
  /\ pc[p] \notin {"save_open", "save_write"}
  /\ outcome[p].saves > 0 => outcome[p].save \in {"ok", "failed"}

\* What C31 says of every state of a run.
StagesOnce ==
  \A p \in Procs :
    /\ outcome[p].fetches <= 1
    /\ outcome[p].loads <= 1
    /\ outcome[p].saves <= 1
    /\ outcome[p].loads > 0 => outcome[p].fetch = "ok"
    /\ outcome[p].saves > 0 => outcome[p].load = "returned"
    /\ (pc[p] = "send" \/ posts[p] # <<>>)
         => /\ ProcessReturned(p)
            /\ SaveOver(p)

\* What C31 says of every step of a run: the run moves to a later stage, or
\* stays in the notifier, which makes one call per step, or ends.
StagesForward ==
  \A p \in Procs :
    /\ pc'[p] # pc[p] => (pc'[p] = "idle" \/ Stage(pc'[p]) > Stage(pc[p]))
    /\ Len(posts'[p]) > Len(posts[p])
         => /\ pc[p] = "send"
            /\ Len(posts'[p]) = Len(posts[p]) + 1

CheckEnded == check.state = "ended"

\* The result of the call is at 09:00 of the zone's wall clock.
AtNine == LocalHour(check.shift, check.next_run) = TargetHour

\* The result is not earlier than the argument and at most a day later.
WithinADay ==
  /\ check.next_run >= check.now
  /\ check.next_run - check.now <= HoursPerDay

\* The result is on the local day of the argument when the argument is not
\* past 09:00 of that day, and on the day after it otherwise.
TodayOrTomorrow ==
  LocalDay(check.shift, check.next_run) =
    LocalDay(check.shift, check.now)
      + (IF LocalHour(check.shift, check.now) <= TargetHour THEN 0 ELSE 1)

\* C33: for every instant now, get_next_check_time(now) is at 09:00 local
\* time of the reference timezone, is not earlier than now and at most 24
\* hours after it, and is today's 09:00 exactly when now is not past 09:00
\* local time, and tomorrow's otherwise.
C33_NextCheckIsNextNine ==
  CheckEnded => (AtNine /\ WithinADay /\ TodayOrTomorrow)

\* What holds of get_next_check_time whatever the clocks do.
C33_WithinADayOnTheRightDay ==
  CheckEnded => (WithinADay /\ TodayOrTomorrow)

\* What holds of it in a stretch of the year without a change of the clocks.
C33_NineWhenNoShift ==
  (CheckEnded /\ check.shift = "none") => AtNine

\* The fetch, the load or the save of the run of p failed.
StepFailed(p) ==
  \/ outcome[p].fetch = "raised"
  \/ outcome[p].load = "raised"
  \/ outcome[p].save = "failed"

C35_ReturnedIdsDistinct ==
  \A p \in Procs :
    ProcessReturned(p)
      => /\ \A i, j \in DOMAIN cli_new_reviews[p] :
              cli_new_reviews[p][i].id = cli_new_reviews[p][j].id => i = j
         /\ \A k \in DOMAIN cli_new_reviews[p] :
              \E i \in First(reviews[p]) :
                cli_new_reviews[p][k] = reviews[p][i]

\* Two reviews with the same unseen id and different bodies were fetched,
\* and the first of them alone was returned.
C35_Witness ==
  \E p \in Procs :
    /\ StoreWorked(p)
    /\ Len(reviews[p]) = 2
    /\ reviews[p][1].id = reviews[p][2].id
    /\ reviews[p][1].body # reviews[p][2].body
    /\ reviews[p][1].id \notin outcome[p].loaded
    /\ cli_new_reviews[p] = <<reviews[p][1]>>

\* The live run of p replays the fetch of the dry run before it, which found
\* new reviews.
LiveAfterDry(p) ==
  /\ Replay(p)
  /\ hist.prevDry
  /\ hist.prevReturned # <<>>
  /\ ~dry_run[p]

\* C36: a dry run updates the persisted seen set as a live run does: once
\* the save of a run has succeeded, dry or live, the file holds the loaded
\* ids and the ids of the reviews returned; and a live run over the fetch
\* result of the dry run before it, which found new reviews, finds no new
\* review and posts none of them.
C36_DryRunSavesSeenSet ==
  \A p \in Procs :
    /\ (ProcessReturned(p) /\ outcome[p].save = "ok")
         => PersistedIds(file) = outcome[p].loaded \cup Ids(cli_new_reviews[p])
    /\ LiveAfterDry(p)
         => /\ cli_new_reviews[p] = <<>>
            /\ \A k \in DOMAIN posts[p] : posts[p][k][1] \notin ReviewIds

\* A dry run returned new reviews; the live run after it fetched the same
\* reviews, and has posted the "no new reviews" message and nothing else.
C36_Witness ==
  \E p \in Procs :
    /\ LiveAfterDry(p)
    /\ pc[p] = "done"
    /\ Len(posts[p]) = 1
    /\ posts[p][1][1] = NoReviewsId

\* The run of p called process_reviews, its load read a well-formed file (or
\* found none), and the run is over.
WellFormedRunEnded(p) ==
  /\ RunEnded(p)
  /\ ProcessReturned(p)
  /\ file0[p].kind \in {"ok", "missing"}
  /\ outcome[p].load # "raised"

\* C37: the persisted seen set only grows: in runs that do not overlap, each
\* load reading a well-formed file and no run killed, the ids in the file
\* after a run include the ids that were in it before the run.
C37_SeenSetOnlyGrows ==
  \A p \in Procs :
    WellFormedRunEnded(p) => Seen0(p) \subseteq PersistedIds(file)

\* C37 in the runs in which no save fails after it has opened the file.
C37_UnlessTruncated ==
  \A p \in Procs :
    (WellFormedRunEnded(p) /\ ~(outcome[p].save = "failed" /\ file = CorruptFile))
      => Seen0(p) \subseteq PersistedIds(file)

\* The reviews of revs with the empty id.
Idless(revs) == {k \in DOMAIN revs : revs[k].id = ""}

\* C38: source records without an id all get the same id, the empty string:
\* a run returns at most one of them, and none when the empty id is in the
\* seen set it loaded.
C38_IdlessRecordsShareOneId ==
  /\ (api.state \in {"ended", "processed"} /\ ~api.result.raised)
       => /\ Len(api.result.reviews) = Len(api.response.body.data)
          /\ \A i \in DOMAIN api.result.reviews :
               api.result.reviews[i].id = ""
                 <=> api.response.body.data[i].id = "absent"
  /\ api.state = "processed"
       => /\ Cardinality(Idless(api.new_reviews)) <= 1
          /\ "" \in api.seen => Idless(api.new_reviews) = {}

\* Two different records without an id were fetched, the seen set was
\* empty, and the first of the two alone was returned.
C38_Witness ==
  /\ api.state = "processed"
  /\ Len(api.response.body.data) = 2
  /\ api.response.body.data[1].id = "absent"
  /\ api.response.body.data[2].id = "absent"
  /\ api.response.body.data[1] # api.response.body.data[2]
  /\ api.seen = {}
  /\ api.new_reviews = <<api.result.reviews[1]>>

====
